---- MODULE Spec2Model ----
(***************************************************************************)
(* Model of the FastAPI GPT chatbot: two tables (conversations, messages), *)
(* the POST /chat handler, and the two read endpoints.  Each request owns  *)
(* a database session; a chat request is split at its only blocking point, *)
(* the upstream completion call, so that other requests interleave there.  *)
(***************************************************************************)
EXTENDS Integers, Sequences, FiniteSets, TLC

\* ---------------------------------------------------------------- bounds
MaxChats == 2
MaxInFlight == 2
MaxTime == 1

\* Number of chat requests already served on conversation 1 at start.
SeedSizes == {0, 9}

UserIdTexts == {"", "u1"}
MessageTexts == {"hi", "yo"}
ReplyTexts == {"r1"}
ApiKeyTexts == {"", "sk"}

\* ------------------------------------------------------- optional values
None == <<>>
Some(x) == <<x>>

\* Python truthiness of an Optional[str]: None and "" are both falsy.
Truthy(opt) == opt # None /\ opt[1] # ""

\* ------------------------------------------------------------- constants
SYSTEM_PROMPT == "You are a helpful, concise assistant. Keep replies short unless asked for detail."

HistoryLimit == 20

VARIABLES
    apiKey,         \* os.environ OPENAI_API_KEY: None or Some(text)
    tie,            \* order in which the engine returns rows of equal created_at
    conversations,  \* committed rows of table conversations
    messages,       \* committed rows of table messages
    nextConvId,     \* next primary key of conversations
    nextMsgId,      \* next primary key of messages
    now,            \* the database server's clock (func.now())
    sess,           \* per request slot: the open session of an in-flight POST /chat
    started,        \* number of chat requests received so far
    failed,         \* serial numbers of the chat requests that ended in a 5xx
    resp            \* the most recently returned HTTP response

vars == <<apiKey, tie, conversations, messages, nextConvId, nextMsgId, now,
          sess, started, failed, resp>>

Slots == 1..MaxInFlight
TieOrders == {"id_asc", "id_desc"}

\* ------------------------------------------------------------ ORM objects
Conversation(user_id, title, rq) ==
    [id |-> 0, user_id |-> user_id, title |-> title, created_at |-> 0, request |-> rq]

\* Mutant of Message: every message is stored with the role of the user turn.
MessageAsUser(conversation_id, role, content, rq) ==
    [id |-> 0, conversation_id |-> conversation_id, role |-> "user",
     content |-> content, created_at |-> 0, request |-> rq]

Message(conversation_id, role, content, rq) ==
    [id |-> 0, conversation_id |-> conversation_id, role |-> role,
     content |-> content, created_at |-> 0, request |-> rq]

\* ---------------------------------------------------------------- session
\* The state one request's session works on: the committed tables as its
\* connection sees them, its pending objects and its flushed, uncommitted rows.
OpenSession ==
    [conversations |-> conversations, messages |-> messages,
     new_convs |-> <<>>, new_msgs |-> <<>>, dirty_convs |-> {}, dirty_msgs |-> {},
     nextConvId |-> nextConvId, nextMsgId |-> nextMsgId]

\* The session of the in-flight request in slot r, resumed after the upstream call.
Resume(r) ==
    [conversations |-> conversations, messages |-> messages,
     new_convs |-> <<>>, new_msgs |-> <<>>,
     dirty_convs |-> sess[r].dirty_convs, dirty_msgs |-> sess[r].dirty_msgs,
     nextConvId |-> nextConvId, nextMsgId |-> nextMsgId]

\* db.add(obj): the object becomes pending in the session, nothing is written.
db_add_conv(st, obj) == [st EXCEPT !.new_convs = Append(@, obj)]

\* messages.content is NOT NULL (Mapped[str]): an INSERT of None fails.
FlushFails(st) == \E i \in 1..Len(st.new_msgs) : st.new_msgs[i].content = None

\* Mutant of db_flush: the flush also commits (a commit per step).
db_flush_commit(st, t) ==
    [st EXCEPT
        !.conversations = @ \cup { [st.new_convs[i] EXCEPT !.id = st.nextConvId + i - 1,
                                                          !.created_at = t]
                                   : i \in 1..Len(st.new_convs) },
        !.messages = @ \cup { [st.new_msgs[i] EXCEPT !.id = st.nextMsgId + i - 1,
                                                    !.created_at = t]
                              : i \in 1..Len(st.new_msgs) },
        !.nextConvId = @ + Len(st.new_convs),
        !.nextMsgId = @ + Len(st.new_msgs),
        !.new_convs = <<>>,
        !.new_msgs = <<>>]

\* INSERT the pending objects inside the open transaction: the server assigns
\* primary key and created_at (server_default=func.now()).
db_flush(st, t) ==
    [st EXCEPT
        !.dirty_convs = @ \cup { [st.new_convs[i] EXCEPT !.id = st.nextConvId + i - 1,
                                                        !.created_at = t]
                                 : i \in 1..Len(st.new_convs) },
        !.dirty_msgs = @ \cup { [st.new_msgs[i] EXCEPT !.id = st.nextMsgId + i - 1,
                                                      !.created_at = t]
                                : i \in 1..Len(st.new_msgs) },
        !.nextConvId = @ + Len(st.new_convs),
        !.nextMsgId = @ + Len(st.new_msgs),
        !.new_convs = <<>>,
        !.new_msgs = <<>>]

\* db.commit(): flush, then make the transaction's rows durable and visible.
db_commit(st, t) ==
    LET f == db_flush(st, t)
    IN [f EXCEPT !.conversations = @ \cup f.dirty_convs,
                 !.messages = @ \cup f.dirty_msgs,
                 !.dirty_convs = {},
                 !.dirty_msgs = {}]

\* Mutant of db_add: the message is committed as soon as it is added.
db_add_commit(st, obj) == db_commit([st EXCEPT !.new_msgs = Append(@, obj)], now)

db_add(st, obj) == [st EXCEPT !.new_msgs = Append(@, obj)]

\* The request's session is closed when the handler returns or raises: what
\* was not committed is rolled back.
db_close(st) ==
    [st EXCEPT !.new_convs = <<>>, !.new_msgs = <<>>, !.dirty_convs = {}, !.dirty_msgs = {}]

\* The session flushes pending objects before it runs a query.
autoflush == TRUE

BeforeQuery(st, t) == IF autoflush THEN db_flush(st, t) ELSE st

\* db.get(models.Conversation, id): the rows with that primary key (none or one).
db_get(st, id) == { c \in st.conversations \cup st.dirty_convs : c.id = id }

\* ---------------------------------------------------------------- ordering
\* ORDER BY created_at: the order of rows with equal created_at is whatever
\* the engine's access path yields, here by ascending or descending id.
Precedes(a, b, desc, t) ==
    IF a.created_at # b.created_at
    THEN IF desc THEN a.created_at > b.created_at ELSE a.created_at < b.created_at
    ELSE IF t = "id_asc" THEN a.id < b.id ELSE a.id > b.id

RECURSIVE OrderBy(_, _, _)
OrderBy(S, desc, t) ==
    IF S = {} THEN <<>>
    ELSE LET x == CHOOSE x \in S : \A y \in S \ {x} : Precedes(x, y, desc, t)
         IN <<x>> \o OrderBy(S \ {x}, desc, t)

Limit(s, n) == IF Len(s) <= n THEN s ELSE SubSeq(s, 1, n)

Reversed(s) == [i \in 1..Len(s) |-> s[Len(s) + 1 - i]]

\* ------------------------------------------------------------ POST /chat
\* payload.user_id is read only when a conversation is created (line 19), so
\* requests that name a conversation are enumerated without one.
Payloads ==
    [user_id : {None} \cup {Some(u) : u \in UserIdTexts},
     conversation_id : {None},
     message : MessageTexts]
    \cup
    [user_id : {None},
     conversation_id : {Some(i) : i \in 1..nextConvId},
     message : MessageTexts]

\* Mutant of ResolvedSession: a conversation is created on every request.
ResolvedSessionAlwaysNew(p, q) ==
    db_flush(db_add_conv(OpenSession, Conversation(p.user_id, None, q)), now)

\* 1) find or create the conversation
ResolvedSession(p, q) ==
    IF p.conversation_id = None
    THEN db_flush(db_add_conv(OpenSession, Conversation(p.user_id, None, q)), now)
    ELSE OpenSession

\* Mutant of ResolvedConv: an unknown conversation_id creates the conversation.
ResolvedConvOrCreate(p, q) ==
    IF p.conversation_id = None
    THEN ResolvedSession(p, q).dirty_convs
    ELSE IF db_get(OpenSession, p.conversation_id[1]) = {}
         THEN db_flush(db_add_conv(OpenSession, Conversation(p.user_id, None, q)), now).dirty_convs
         ELSE db_get(OpenSession, p.conversation_id[1])

ResolvedConv(p, q) ==
    IF p.conversation_id = None
    THEN ResolvedSession(p, q).dirty_convs
    ELSE db_get(OpenSession, p.conversation_id[1])

Found(p, q) == ResolvedConv(p, q) # {}

ConvId(p, q) == (CHOOSE c \in ResolvedConv(p, q) : TRUE).id

\* 2) persist the user message
WithUser(p, q) ==
    db_add(ResolvedSession(p, q), Message(ConvId(p, q), "user", Some(p.message), q))

\* 3) the last 20 messages of the conversation, oldest first
Queried(p, q) == BeforeQuery(WithUser(p, q), now)

History(p, q) ==
    LET st == Queried(p, q)
        rows == { m \in st.messages \cup st.dirty_msgs : m.conversation_id = ConvId(p, q) }
    IN Reversed(Limit(OrderBy(rows, TRUE, tie), HistoryLimit))

\* the turn list handed to the completion API
Turns(history) ==
    <<[role |-> "system", content |-> Some(SYSTEM_PROMPT)]>> \o
    [i \in 1..Len(history) |-> [role |-> history[i].role, content |-> history[i].content]]

\* 4) get_openai_client(): raises ValueError unless the key is set and non-empty
get_openai_client(key) == Truthy(key)

IdleSession ==
    [pc |-> "idle", request |-> 0, payload |-> [user_id |-> None, conversation_id |-> None, message |-> ""],
     conv_id |-> 0, dirty_convs |-> {}, dirty_msgs |-> {}, history |-> <<>>]

Response(op, status, q, p, id, reply, rows, called) ==
    [op |-> op, status |-> status, request |-> q, payload |-> p,
     conversation_id |-> id, reply |-> reply, rows |-> rows, called |-> called]

\* conversation_id given but unknown: HTTPException(404) before any write
ChatNotFound(p) ==
    /\ started < MaxChats
    /\ ~Found(p, started + 1)
    /\ LET st == db_close(ResolvedSession(p, started + 1))
       IN /\ conversations' = st.conversations
          /\ messages' = st.messages
          /\ nextConvId' = st.nextConvId
          /\ nextMsgId' = st.nextMsgId
    /\ started' = started + 1
    /\ resp' = Response("chat", 404, started + 1, p, 0, None, <<>>, FALSE)
    /\ UNCHANGED <<apiKey, tie, now, sess, failed>>

\* the credential is missing: ValueError after steps 1-3, before the call
ChatNoCredential(p) ==
    /\ started < MaxChats
    /\ Found(p, started + 1)
    /\ ~get_openai_client(apiKey)
    /\ LET st == db_close(Queried(p, started + 1))
       IN /\ conversations' = st.conversations
          /\ messages' = st.messages
          /\ nextConvId' = st.nextConvId
          /\ nextMsgId' = st.nextMsgId
    /\ started' = started + 1
    /\ failed' = failed \cup {started + 1}
    /\ resp' = Response("chat", 500, started + 1, p, 0, None, <<>>, FALSE)
    /\ UNCHANGED <<apiKey, tie, now, sess>>

\* steps 1-4 up to the blocking call client.chat.completions.create(...)
ChatCall(r, p) ==
    /\ started < MaxChats
    /\ sess[r].pc = "idle"
    /\ \A r2 \in Slots : r2 < r => sess[r2].pc # "idle"
    /\ Found(p, started + 1)
    /\ get_openai_client(apiKey)
    /\ LET st == Queried(p, started + 1)
       IN /\ conversations' = st.conversations
          /\ messages' = st.messages
          /\ nextConvId' = st.nextConvId
          /\ nextMsgId' = st.nextMsgId
          /\ sess' = [sess EXCEPT ![r] =
                        [pc |-> "calling", request |-> started + 1, payload |-> p,
                         conv_id |-> ConvId(p, started + 1),
                         dirty_convs |-> st.dirty_convs, dirty_msgs |-> st.dirty_msgs,
                         history |-> History(p, started + 1)]]
    /\ started' = started + 1
    /\ UNCHANGED <<apiKey, tie, now, failed, resp>>

\* the call returned a completion whose first choice has content `reply`
\* (None when the model sent no text): 5) save the reply, commit, respond
ChatReply(r, reply) ==
    /\ sess[r].pc = "calling"
    /\ LET s == sess[r]
           st == db_add(Resume(r), Message(s.conv_id, "assistant", reply, s.request))
           ok == ~FlushFails(st)
           fin == IF ok THEN db_close(db_commit(st, now)) ELSE db_close(st)
       IN /\ conversations' = fin.conversations
          /\ messages' = fin.messages
          /\ nextConvId' = fin.nextConvId
          /\ nextMsgId' = fin.nextMsgId
          /\ failed' = IF ok THEN failed ELSE failed \cup {s.request}
          /\ resp' = IF ok
                     THEN Response("chat", 200, s.request, s.payload, s.conv_id, reply, <<>>, TRUE)
                     ELSE Response("chat", 500, s.request, s.payload, 0, None, <<>>, TRUE)
    /\ sess' = [sess EXCEPT ![r] = IdleSession]
    /\ UNCHANGED <<apiKey, tie, now, started>>

\* the call raised (auth, rate limit, network) or returned no choices
\* (IndexError on choices[0]): the exception leaves the handler
UpstreamFailures == {"error", "no_choices"}

ChatUpstreamFail(r, kind) ==
    /\ sess[r].pc = "calling"
    /\ LET st == db_close(Resume(r))
       IN /\ conversations' = st.conversations
          /\ messages' = st.messages
          /\ nextConvId' = st.nextConvId
          /\ nextMsgId' = st.nextMsgId
    /\ failed' = failed \cup {sess[r].request}
    /\ resp' = Response("chat", 500, sess[r].request, sess[r].payload, 0, None, <<>>, TRUE)
    /\ sess' = [sess EXCEPT ![r] = IdleSession]
    /\ UNCHANGED <<apiKey, tie, now, started>>

\* ------------------------------------------------------ GET /conversations
ReadPayload(user_id, conversation_id) ==
    [user_id |-> user_id, conversation_id |-> conversation_id, message |-> ""]

FilterByUser(q, user_id) ==
    IF Truthy(user_id) THEN { c \in q : c.user_id = user_id } ELSE q

list_conversations(user_id) ==
    OrderBy(FilterByUser(OpenSession.conversations, user_id), TRUE, tie)

ListConversations(user_id) ==
    /\ resp' = Response("list_conversations", 200, 0, ReadPayload(user_id, None), 0, None,
                        list_conversations(user_id), FALSE)
    /\ UNCHANGED <<apiKey, tie, conversations, messages, nextConvId, nextMsgId, now,
                   sess, started, failed>>

\* ------------------------------------- GET /conversations/{id}/messages
\* Mutant of get_messages: an unknown id is an error, as in POST /chat.
get_messages_strict(conversation_id) ==
    IF db_get(OpenSession, conversation_id) = {}
    THEN [status |-> 404, messages |-> <<>>]
    ELSE [status |-> 200,
          messages |-> OrderBy({ m \in OpenSession.messages : m.conversation_id = conversation_id },
                               FALSE, tie)]

get_messages(conversation_id) ==
    IF db_get(OpenSession, conversation_id) = {}
    THEN [status |-> 200, messages |-> <<>>]
    ELSE [status |-> 200,
          messages |-> OrderBy({ m \in OpenSession.messages : m.conversation_id = conversation_id },
                               FALSE, tie)]

GetMessages(conversation_id) ==
    /\ resp' = Response("get_messages", get_messages(conversation_id).status, 0,
                        ReadPayload(None, Some(conversation_id)), conversation_id, None,
                        get_messages(conversation_id).messages, FALSE)
    /\ UNCHANGED <<apiKey, tie, conversations, messages, nextConvId, nextMsgId, now,
                   sess, started, failed>>

\* ------------------------------------------------------------------ clock
Tick ==
    /\ now < MaxTime
    /\ now' = now + 1
    /\ UNCHANGED <<apiKey, tie, conversations, messages, nextConvId, nextMsgId,
                   sess, started, failed, resp>>

\* ------------------------------------------------------------------- Init
\* Conversation 1 after n served chat requests, the last one at time 0.
SeedConversations(n) ==
    IF n = 0 THEN {}
    ELSE { [id |-> 1, user_id |-> Some("u1"), title |-> None,
            created_at |-> 1 - 2 * n, request |-> 0 - n] }

SeedMessages(n) ==
    { [id |-> k, conversation_id |-> 1,
       role |-> IF k % 2 = 1 THEN "user" ELSE "assistant",
       content |-> IF k % 2 = 1 THEN Some("hi") ELSE Some("r1"),
       created_at |-> k - 2 * n,
       request |-> ((k + 1) \div 2) - n - 1] : k \in 1..(2 * n) }

Init ==
    /\ apiKey \in {None} \cup {Some(k) : k \in ApiKeyTexts}
    /\ tie \in TieOrders
    /\ \E n \in SeedSizes :
        /\ conversations = SeedConversations(n)
        /\ messages = SeedMessages(n)
        /\ nextConvId = IF n = 0 THEN 1 ELSE 2
        /\ nextMsgId = 2 * n + 1
    /\ now = 0
    /\ sess = [r \in Slots |-> IdleSession]
    /\ started = 0
    /\ failed = {}
    /\ resp = [op |-> "root", status |-> 200, request |-> 0,
               payload |-> ReadPayload(None, None), conversation_id |-> 0,
               reply |-> None, rows |-> <<>>, called |-> FALSE]

Next ==
    \/ \E p \in Payloads : ChatNotFound(p)
    \/ \E p \in Payloads : ChatNoCredential(p)
    \/ \E r \in Slots, p \in Payloads : ChatCall(r, p)
    \/ \E r \in Slots, reply \in {None} \cup {Some(t) : t \in ReplyTexts} : ChatReply(r, reply)
    \/ \E r \in Slots, kind \in UpstreamFailures : ChatUpstreamFail(r, kind)
    \/ \E u \in {None} \cup {Some(t) : t \in UserIdTexts} : ListConversations(u)
    \/ \E id \in 1..nextConvId : GetMessages(id)
    \/ Tick

Spec == Init /\ [][Next]_vars

\* ================================================================= claims
Ids(S) == { x.id : x \in S }

Range(s) == { s[i] : i \in 1..Len(s) }

\* this step answered a POST /chat: at once (no session left open), or by
\* finishing an in-flight request
ChatAnswered ==
    /\ resp'.op = "chat"
    /\ \/ started' # started /\ sess' = sess
       \/ \E r \in Slots : sess[r].pc = "calling" /\ sess'[r].pc = "idle"

ChatResponded(status) == ChatAnswered /\ resp'.status = status

\* this step answered a read with a response other than the last one returned
ReadAnswered(op) == resp' # resp /\ resp'.op = op

\* this step is the request in slot r reaching the completion call
Called(r) == sess[r].pc = "idle" /\ sess'[r].pc = "calling"

\* rows by ascending primary key, the order they were inserted in
RECURSIVE InsertionOrder(_)
InsertionOrder(S) ==
    IF S = {} THEN <<>>
    ELSE LET x == CHOOSE x \in S : \A y \in S : x.id <= y.id
         IN <<x>> \o InsertionOrder(S \ {x})

LastN(s, n) == IF Len(s) <= n THEN s ELSE SubSeq(s, Len(s) - n + 1, Len(s))

NonDecreasing(s) == \A i \in 1..(Len(s) - 1) : s[i].created_at <= s[i + 1].created_at

NonIncreasing(s) == \A i \in 1..(Len(s) - 1) : s[i].created_at >= s[i + 1].created_at

RowsOf(q, S) == { x \in S : x.request = q }

InFlight == { sess[r].request : r \in { r2 \in Slots : sess[r2].pc = "calling" } }

\* C1: a chat request that fails at or after the completion call (missing
\* credential, upstream error, malformed response) leaves the committed tables
\* as they were, and no committed row ever belongs to a failed request.
C1_FailedChatPersistsNothing ==
    [][ChatResponded(500) =>
            /\ conversations' = conversations
            /\ messages' = messages
            /\ \A q \in failed' : RowsOf(q, conversations') = {} /\ RowsOf(q, messages') = {}]_vars

C1_Witness ==
    /\ resp.op = "chat" /\ resp.status = 500 /\ resp.called
    /\ resp.payload.conversation_id = None
    /\ conversations # {}

\* C2: the turn list sent upstream is the system turn followed by the
\* min(n, 20) most recent messages of the conversation in insertion order,
\* n counting the current user message; at most 21 turns, one conversation only.
C2_WindowIsLastTwentyInInsertionOrder ==
    [][\A r \in Slots : Called(r) =>
            LET s == sess'[r]
                visible == { m \in messages : m.conversation_id = s.conv_id } \cup s.dirty_msgs
            IN /\ s.history = LastN(InsertionOrder(visible), HistoryLimit)
               /\ Len(Turns(s.history)) <= HistoryLimit + 1
               /\ Turns(s.history)[1] = [role |-> "system", content |-> Some(SYSTEM_PROMPT)]
               /\ \A i \in 1..Len(s.history) : s.history[i].conversation_id = s.conv_id]_vars

\* C3: a successful chat without conversation_id creates exactly one
\* conversation with a fresh id and returns it; a successful chat carrying an
\* id creates none, returns that id and appends only to that conversation.
C3_CreateThenAppend ==
    [][ChatResponded(200) =>
            /\ \A c1, c2 \in conversations' : c1.id = c2.id => c1 = c2
            /\ resp'.payload.conversation_id = None =>
                 \E c \in conversations' :
                    /\ c.id = resp'.conversation_id
                    /\ c.id \notin Ids(conversations)
                    /\ conversations' = conversations \cup {c}
            /\ resp'.payload.conversation_id # None =>
                 /\ conversations' = conversations
                 /\ resp'.conversation_id = resp'.payload.conversation_id[1]
                 /\ \A m \in messages' \ messages :
                        m.conversation_id = resp'.payload.conversation_id[1]]_vars

C3_Witness ==
    /\ resp.op = "chat" /\ resp.status = 200
    /\ resp.payload.conversation_id # None
    /\ \E c \in conversations : c.id = resp.conversation_id /\ c.request > 0

\* C4: a chat naming a conversation that does not exist is answered 404
\* without calling the completion API and without changing the tables,
\* with or without a credential.
C4_UnknownConversationIs404 ==
    [][/\ \A r \in Slots : Called(r) =>
              (sess'[r].payload.conversation_id # None =>
                  sess'[r].payload.conversation_id[1] \in Ids(conversations))
       /\ (/\ ChatAnswered
           /\ resp'.payload.conversation_id # None
           /\ resp'.payload.conversation_id[1] \notin Ids(conversations)) =>
              /\ resp'.status = 404
              /\ ~resp'.called
              /\ conversations' = conversations
              /\ messages' = messages]_vars

C4_Witness ==
    /\ resp.op = "chat" /\ resp.status = 404
    /\ ~Truthy(apiKey)
    /\ messages # {}

\* C5: a reader never sees part of a chat request: the messages it is given
\* hold, per request, the user message and the reply or neither, none of an
\* in-flight request, and every conversation it sees has its first two messages.
C5_ReadersSeeWholeRequests ==
    [][(ReadAnswered("get_messages") \/ ReadAnswered("list_conversations")) =>
            LET seen == Range(resp'.rows)
            IN /\ \A x \in seen : x.request \notin InFlight
               /\ resp'.op = "get_messages" =>
                    /\ \A m \in seen :
                          \E u, a \in seen : /\ u.request = m.request /\ u.role = "user"
                                             /\ a.request = m.request /\ a.role = "assistant"
                    /\ \A c \in conversations : c.id = resp'.conversation_id =>
                          RowsOf(c.request, seen) # {}
               /\ resp'.op = "list_conversations" =>
                    \A c \in seen :
                       \E u, a \in messages :
                          /\ u.conversation_id = c.id /\ u.request = c.request /\ u.role = "user"
                          /\ a.conversation_id = c.id /\ a.request = c.request
                          /\ a.role = "assistant"]_vars

C5_Witness ==
    /\ resp.op = "get_messages"
    /\ resp.rows # <<>>
    /\ \E r \in Slots : sess[r].pc = "calling" /\ sess[r].conv_id = resp.conversation_id

\* C6: a successful chat adds exactly two messages, both to the resolved
\* conversation: the user message with the request's text, then the assistant
\* message with the returned reply; no step changes or removes a message.
C6_TwoMessagesAppended ==
    [][/\ messages \subseteq messages'
       /\ IF ChatResponded(200)
          THEN \E u, a \in messages' \ messages :
                  /\ messages' = messages \cup {u, a}
                  /\ u.id < a.id
                  /\ u.conversation_id = resp'.conversation_id
                  /\ a.conversation_id = resp'.conversation_id
                  /\ u.role = "user" /\ u.content = Some(resp'.payload.message)
                  /\ a.role = "assistant" /\ a.content = resp'.reply
                  /\ resp'.reply # None
          ELSE messages' = messages]_vars

C6_Witness ==
    /\ resp.op = "chat" /\ resp.status = 200
    /\ \E m \in messages : m.conversation_id # resp.conversation_id
    /\ \E m \in messages : m.conversation_id = resp.conversation_id /\ m.request < resp.request

\* C7: GET /conversations/{id}/messages returns exactly the messages of the
\* conversation, each once, in non-decreasing creation time and in the order
\* they were inserted, also when creation timestamps are equal.
C7_MessagesInInsertionOrder ==
    [][ReadAnswered("get_messages") =>
            /\ NonDecreasing(resp'.rows)
            /\ resp'.rows =
                 InsertionOrder({ m \in messages : m.conversation_id = resp'.conversation_id })]_vars

\* C8: GET /conversations?user_id=v returns exactly the conversations whose
\* user_id is v, each once, newest first; without user_id it returns them all.
C8_ListFiltersByExactUser ==
    [][ReadAnswered("list_conversations") =>
            LET u == resp'.payload.user_id
                want == IF u = None THEN conversations
                        ELSE { c \in conversations : c.user_id = u }
            IN /\ Range(resp'.rows) = want
               /\ Len(resp'.rows) = Cardinality(want)
               /\ NonIncreasing(resp'.rows)]_vars

C10_LastTurnIsCurrentUserMessage ==
    [][\A r \in Slots : Called(r) =>
            LET s == sess'[r]
                turns == Turns(s.history)
            IN /\ turns[Len(turns)] = [role |-> "user", content |-> Some(s.payload.message)]
               /\ s.history[Len(s.history)].request = s.request]_vars

====
